---- MODULE Spec2Model ----
(***************************************************************************)
(* Model of src/src/user_db_manager.py: UserDBManager over an S3 bucket.   *)
(*                                                                         *)
(* The bucket maps the object key "user_db_<uid>" to a JSON document; the  *)
(* model keys objects by the uid itself.  A uid is a number of Ids, and 0  *)
(* stands for a uid that is '' or missing from the request (req.get gives  *)
(* None): the code tests both with `not uid`.  A secured user string is a  *)
(* number too: 0 is '', None is a key missing from the request, and n > 0  *)
(* is the string shortuuid.encode(uuid4()) made by the n-th call that      *)
(* generated one (close_account tests its sus with `not sus`, so there 0   *)
(* also stands for a missing one).  User strings are sequences of          *)
(* one-character strings.                                                  *)
(***************************************************************************)
EXTENDS Integers, Sequences, FiniteSets, TLC

VARIABLES
  bucket,     \* the S3 bucket: a function from the uids that have an object to its JSON dict
  managers,   \* the uids for which a UserDBManager instance has been constructed
  nonce,      \* how many fresh random values (argon2 salt, uuid4) have been drawn
  call,       \* the last call made on an instance: operation, instance, request, returned value
  lastStore,  \* history: <<uid, s>> when s is the string of the last store on uid, with no
              \* store, recover or close on uid since
  closed,     \* history: the uids closed with their own token and not initialised since
  inflight    \* for each of two concurrent callers, the call it is in or has last finished

vars == <<bucket, managers, nonce, call, lastStore, closed, inflight>>

----------------------------------------------------------------------------
(* Bounds of the model *)

\* the number of store/recover calls that draw fresh random values
MaxCalls == 2

\* the principals: two, so that a request can name another uid than the instance's own
Ids == {1, 2}
\* req.get(key) of a key the request does not hold
None == -1
\* the uid of a request: 0 is '' or None
Uids == {0} \cup Ids
\* secured user strings a request can carry
Tokens == {None} \cup (0..MaxCalls)
\* the readings of datetime.datetime.now(): the system clock is not monotonic
Times == {1, 2}
\* user strings: '', a, and the double quote, which json.dumps escapes
UserStrings == {<<>>, <<"a">>, <<"\"">>}

----------------------------------------------------------------------------
(* Pure functions *)

RECURSIVE escape(_)
\* json.dumps escapes the double quote and the backslash of a str
escape(s) ==
  IF s = <<>> THEN <<>>
  ELSE (IF Head(s) \in {"\"", "\\"} THEN <<"\\", Head(s)>> ELSE <<Head(s)>>)
         \o escape(Tail(s))

\* json.dumps of a str: the escaped characters between double quotes
json_dumps(s) == <<"\"">> \o escape(s) \o <<"\"">>

\* 'request_string' in req
has_request_string(req) == "request_string" \in DOMAIN req

\* serialize_data(req), for a req that holds 'request_string' (KeyError otherwise)
serialize_data(req) == json_dumps(req.request_string)

\* PasswordHasher().hash(data) with its fresh salt: the salt and a one-way digest of the
\* data, which is only ever read by ph_verify
hash_user_string(user_string, salt) == <<salt, user_string>>

\* a verification that only ever reports a digest that disagrees
ph_verify_unchecked(user_hash, user_string) ==
  IF Len(user_hash) = 2 /\ user_hash[2] # user_string THEN "VerifyMismatchError"
  ELSE "True"

\* PasswordHasher().verify(hash, data): True, or one of the two argon2 exceptions
ph_verify(user_hash, user_string) ==
  IF Len(user_hash) # 2 THEN "InvalidHash"
  ELSE IF user_hash[2] = user_string THEN "True"
  ELSE "VerifyMismatchError"

\* generate_secured_string(): shortuuid.encode(uuid.uuid4()), the n-th fresh one
generate_secured_string(n) == n

\* initial_data of initialize_db
initial_data ==
  [_id |-> 0, hash_string |-> <<>>, secured_user_string |-> 0, created_on |-> 0]

\* an update that sets only the keys the dict does not hold yet
update_missing_keys(data, new) ==
  [k \in DOMAIN data \cup DOMAIN new |-> IF k \in DOMAIN data THEN data[k] ELSE new[k]]

\* dict.update
update(data, new) ==
  [k \in DOMAIN data \cup DOMAIN new |-> IF k \in DOMAIN new THEN new[k] ELSE data[k]]

\* a validation that looks at the user string alone
all_values_request_string_only(req) ==
  has_request_string(req) => req.request_string # <<>>

\* all(req.values())
all_values(req) == \A k \in DOMAIN req : req[k] # <<>>

\* a head_object on a key no object has
db_file_exists_wrong_key(b, uid) == 0 \in DOMAIN b

\* head_object succeeds
db_file_exists(b, uid) == uid \in DOMAIN b

\* _read_from_s3 of the instance constructed with uid: the dict, or {} on ClientError
read_from_s3(b, uid) == IF uid \in DOMAIN b THEN b[uid] ELSE <<>>

\* _write_to_s3: put_object replaces the whole object
write_to_s3(b, uid, data) ==
  [k \in DOMAIN b \cup {uid} |-> IF k = uid THEN data ELSE b[k]]

\* delete_object
delete_object(b, uid) == [k \in DOMAIN b \ {uid} |-> b[k]]

\* `not x` of a uid or a secured user string
falsy(x) == x \in {None, 0}

\* a returned value: what kind it is and, for the dicts store and recover return, their entries
Ret(tag) == [tag |-> tag, id |-> 0, sus |-> None]

\* an update that leaves out 'secured_user_string' when the record read holds one
populate_keeping_token(data, uid, serialised, n, t) ==
  update(data, [hash_string |-> <<n, serialised>>,
                secured_user_string |-> IF "secured_user_string" \in DOMAIN data
                                          THEN data.secured_user_string ELSE n,
                _id |-> uid,
                created_on |-> t])

\* data.update({...}) of store_user_string and recover_account: n is the fresh random draw
\* of the call, t its clock reading
populate(data, uid, serialised, n, t) ==
  update(data, [hash_string |-> hash_user_string(serialised, n),
                secured_user_string |-> generate_secured_string(n),
                _id |-> uid,
                created_on |-> t])

\* display_user_db(user_id): the dict of the object of user_id, or a message
display_user_db(b, user_id) ==
  IF user_id \in DOMAIN b
    THEN [tag |-> "dict", data |-> b[user_id]]
    ELSE [tag |-> "No database found for UID", data |-> <<>>]

\* what verify_user(req) returns (raises, for KeyError)
verify_user_ret(b, req) ==
  IF falsy(req.uid) THEN "UID not provided in the request."
  ELSE IF ~has_request_string(req) THEN "KeyError"
  ELSE LET user_string == serialize_data(req)
           user_data == display_user_db(b, req.uid)
       IN IF user_data.tag = "dict"
            THEN IF "hash_string" \notin DOMAIN user_data.data
                   THEN "User hash not found in the database."
                   ELSE LET check_validity == ph_verify(user_data.data.hash_string, user_string)
                        IN IF check_validity = "VerifyMismatchError"
                             THEN "User string does not match the stored hash."
                           ELSE IF check_validity = "True" THEN "Successful"
                           ELSE "Error during verification"
            ELSE user_data.tag

\* what check_sus_integrity(req) returns (raises, for TypeError) on the instance of uid self
check_sus_integrity_ret(b, self, req) ==
  IF falsy(req.uid) /\ falsy(req.secured_user_string) THEN "TypeError"
  ELSE LET data == read_from_s3(b, self)
       IN IF DOMAIN data = {} THEN "DBM not found"
          ELSE IF "secured_user_string" \notin DOMAIN data
            THEN "User string not found in the database."
          ELSE IF data.secured_user_string = req.secured_user_string THEN "Success"
          ELSE "Error, Integrity check failed"

\* what close_account(req) returns (raises, for KeyError) on the instance of uid self
close_account_ret(b, self, req) ==
  IF falsy(req.uid) \/ falsy(req.sus) THEN "KeyError"
  ELSE LET data == read_from_s3(b, self)
       IN IF DOMAIN data = {} THEN "DBM not found"
          ELSE IF "secured_user_string" \notin DOMAIN data THEN "User not found"
          ELSE IF data.secured_user_string # req.sus
            THEN "Provided Secured User String does not match for UID"
          ELSE "Success"

\* the bucket after close_account(req) on the instance of uid self
close_account_bucket(b, self, req) ==
  IF close_account_ret(b, self, req) = "Success" THEN delete_object(b, req.uid) ELSE b

\* whether recover_account(req) on the instance of uid self gets to rewrite the record
recover_account_ret(b, self, req) ==
  IF falsy(req._id) \/ req.user_string = <<>> THEN "None"
  ELSE IF DOMAIN read_from_s3(b, self) = {} THEN "None"
  ELSE "dict"

\* the bucket after recover_account(req) on the instance of uid self
recover_account_bucket(b, self, req, n, t) ==
  IF recover_account_ret(b, self, req) = "dict"
    THEN write_to_s3(b, self,
           populate(read_from_s3(b, self), req._id,
                    serialize_data([request_string |-> req.user_string]), n, t))
    ELSE b

\* a store that hashes the user string as given, without serialize_data
store_user_string_unserialised(b, self, req, n, t) ==
  write_to_s3(b, self, populate(read_from_s3(b, self), self, req.request_string, n, t))

\* the bucket after a store_user_string(req) that passed validation, on the instance of uid self
store_user_string_bucket(b, self, req, n, t) ==
  write_to_s3(b, self, populate(read_from_s3(b, self), self, serialize_data(req), n, t))

----------------------------------------------------------------------------
(* Requests *)

StoreKeys == {"request_string", "extra"}
StoreReqs == UNION {[ks -> UserStrings] : ks \in SUBSET StoreKeys}
VerifyReqs == [uid : Uids, request_string : UserStrings] \cup [uid : Uids]
CheckReqs == [uid : Uids, secured_user_string : Tokens]
RecoverReqs == [_id : Uids, user_string : UserStrings]
CloseReqs == [uid : Uids, sus : Tokens \ {None}]

\* the record of a call
Call(op, self, req, ret) == [op |-> op, mgr |-> self, req |-> req, ret |-> ret]

\* the pairs of lastStore that a store, recover or close on the uids of us ends
forget(us) == {p \in lastStore : p[1] \notin us}

\* two callers, each with its own UserDBManager instance, in its own thread or process
Callers == {"A", "B"}

\* a call of a caller: the operation, the S3 call it is about to make ("idle" once it has
\* returned), the user string, the drawn random value and the clock reading of a store or a
\* recover, the dict it is about to put, the key it is about to delete, what it returned,
\* whether the caller holds an instance, and as history whether the call overlapped the call
\* of the other caller and whether its put or delete is the last one the bucket has taken
Inflight(op, pc, s, n, t, rec, key, ret, inst) ==
  [op |-> op, pc |-> pc, s |-> s, n |-> n, t |-> t, rec |-> rec, key |-> key, ret |-> ret,
   inst |-> inst, overlap |-> FALSE, last |-> FALSE]

----------------------------------------------------------------------------
(* The state after start-up, and the operations *)

Init ==
  /\ bucket = <<>>
  /\ managers = {}
  /\ nonce = 0
  /\ call = Call("none", 0, [uid |-> 0], Ret("none"))
  /\ lastStore = {}
  /\ closed = {}
  /\ inflight = [p \in Callers |-> Inflight("none", "idle", <<>>, 0, 0, <<>>, 0, "none", FALSE)]

\* UserDBManager(uid, accept_init); uid 0 is None, and the instance takes a uuid4 no
\* object and no instance has
UserDBManager(uid, accept_init) ==
  \E self \in Ids :
    /\ IF uid # 0 THEN self = uid ELSE self \notin DOMAIN bucket \cup managers
    /\ IF ~db_file_exists(bucket, self)
         THEN IF ~accept_init
                THEN /\ UNCHANGED <<bucket, managers>>
                     /\ call' = Call("init", self, [uid |-> uid], Ret("ValueError"))
                ELSE /\ bucket' = write_to_s3(bucket, self, initial_data)
                     /\ managers' = managers \cup {self}
                     /\ call' = Call("init", self, [uid |-> uid], Ret("initialized"))
         ELSE /\ UNCHANGED bucket
              /\ managers' = managers \cup {self}
              /\ call' = Call("init", self, [uid |-> uid], Ret("already exists"))
    /\ closed' = closed \ {self}
    /\ UNCHANGED <<nonce, lastStore, inflight>>

store_user_string(self, req) ==
  /\ self \in managers
  /\ IF ~all_values(req)
       THEN /\ call' = Call("store", self, req, Ret("None"))
            /\ UNCHANGED <<bucket, nonce>>
            /\ lastStore' = forget({self})
     ELSE IF ~has_request_string(req)
       THEN /\ call' = Call("store", self, req, Ret("KeyError"))
            /\ UNCHANGED <<bucket, nonce>>
            /\ lastStore' = forget({self})
     ELSE /\ nonce < MaxCalls
          /\ nonce' = nonce + 1
          /\ \E current_datetime \in Times :
               bucket' = store_user_string_bucket(bucket, self, req, nonce + 1, current_datetime)
          /\ call' = Call("store", self, req, [Ret("dict") EXCEPT !.id = self])
          /\ lastStore' = forget({self}) \cup {<<self, req.request_string>>}
  /\ UNCHANGED <<managers, closed, inflight>>

\* a verify_user that stamps the record it has verified with the time of the verification
verify_user_stamping(self, req) ==
  /\ self \in managers
  /\ call' = Call("verify", self, req, Ret(verify_user_ret(bucket, req)))
  /\ IF verify_user_ret(bucket, req) = "Successful"
       THEN \E current_datetime \in Times :
              bucket' = write_to_s3(bucket, req.uid,
                          update(bucket[req.uid], [created_on |-> current_datetime]))
       ELSE UNCHANGED bucket
  /\ UNCHANGED <<managers, nonce, lastStore, closed, inflight>>

verify_user(self, req) ==
  /\ self \in managers
  /\ call' = Call("verify", self, req, Ret(verify_user_ret(bucket, req)))
  /\ UNCHANGED <<bucket, managers, nonce, lastStore, closed, inflight>>

\* display_user_db(user_id) called on an instance
display(self, user_id) ==
  /\ self \in managers
  /\ call' = Call("display", self, [uid |-> user_id], Ret(display_user_db(bucket, user_id).tag))
  /\ UNCHANGED <<bucket, managers, nonce, lastStore, closed, inflight>>

check_sus_integrity(self, req) ==
  /\ self \in managers
  /\ call' = Call("check", self, req, Ret(check_sus_integrity_ret(bucket, self, req)))
  /\ UNCHANGED <<bucket, managers, nonce, lastStore, closed, inflight>>

recover_account(self, req) ==
  /\ self \in managers
  /\ IF recover_account_ret(bucket, self, req) = "dict"
       THEN /\ nonce < MaxCalls
            /\ nonce' = nonce + 1
            /\ \E current_datetime \in Times :
                 bucket' = recover_account_bucket(bucket, self, req, nonce + 1, current_datetime)
            /\ call' = Call("recover", self, req,
                            [Ret("dict") EXCEPT !.id = req._id,
                                                !.sus = generate_secured_string(nonce + 1)])
       ELSE /\ call' = Call("recover", self, req, Ret("None"))
            /\ UNCHANGED <<bucket, nonce>>
  /\ lastStore' = forget({self, req._id})
  /\ UNCHANGED <<managers, closed, inflight>>

close_account(self, req) ==
  /\ self \in managers
  /\ bucket' = close_account_bucket(bucket, self, req)
  /\ call' = Call("close", self, req, Ret(close_account_ret(bucket, self, req)))
  /\ lastStore' = forget({self, req.uid})
  /\ closed' = IF /\ close_account_ret(bucket, self, req) = "Success"
                  /\ req.uid \in DOMAIN bucket
                  /\ bucket[req.uid].secured_user_string = req.sus
                THEN closed \cup {req.uid} ELSE closed
  /\ UNCHANGED <<managers, nonce, inflight>>

Next ==
  \/ \E uid \in Uids, accept_init \in BOOLEAN : UserDBManager(uid, accept_init)
  \/ \E self \in Ids, req \in StoreReqs : store_user_string(self, req)
  \/ \E self \in Ids, req \in VerifyReqs : verify_user(self, req)
  \/ \E self \in Ids, user_id \in Uids : display(self, user_id)
  \/ \E self \in Ids, req \in CheckReqs : check_sus_integrity(self, req)
  \/ \E self \in Ids, req \in RecoverReqs : recover_account(self, req)
  \/ \E self \in Ids, req \in CloseReqs : close_account(self, req)

Spec == Init /\ [][Next]_vars

----------------------------------------------------------------------------
(* The operations when a call to S3 raises ClientError although the bucket is as it is: *)
(* the bucket cannot be reached, or it rejects the write.  _read_from_s3, db_file_exists *)
(* and display_user_db then see what they see of an empty bucket; _write_to_s3 logs and *)
(* returns.  lastStore and closed are not kept here.                                    *)

\* the record of a call in which the S3 calls of `failed` raised ClientError
CallF(op, self, req, ret, failed) ==
  [op |-> op, mgr |-> self, req |-> req, ret |-> ret, failed |-> failed]

\* UserDBManager(uid, accept_init) when head_object raises: db_file_exists is False
UserDBManager_head_fails(uid, accept_init) ==
  /\ uid \in Ids
  /\ IF ~db_file_exists(<<>>, uid)
       THEN IF ~accept_init
              THEN /\ UNCHANGED <<bucket, managers>>
                   /\ call' = CallF("init", uid, [uid |-> uid], Ret("ValueError"), {"head_object"})
              ELSE /\ bucket' = write_to_s3(bucket, uid, initial_data)
                   /\ managers' = managers \cup {uid}
                   /\ call' = CallF("init", uid, [uid |-> uid], Ret("initialized"), {"head_object"})
       ELSE /\ UNCHANGED bucket
            /\ managers' = managers \cup {uid}
            /\ call' = CallF("init", uid, [uid |-> uid], Ret("already exists"), {"head_object"})
  /\ UNCHANGED <<nonce, lastStore, closed, inflight>>

\* UserDBManager(uid) for a uid with no object when the put_object of initialize_db raises
UserDBManager_put_fails(uid) ==
  /\ uid \in Ids
  /\ ~db_file_exists(bucket, uid)
  /\ managers' = managers \cup {uid}
  /\ call' = CallF("init", uid, [uid |-> uid], Ret("initialized"), {"put_object"})
  /\ UNCHANGED <<bucket, nonce, lastStore, closed, inflight>>

\* store_user_string(req) when put_object raises
store_user_string_put_fails(self, req) ==
  /\ self \in managers
  /\ all_values(req)
  /\ has_request_string(req)
  /\ nonce < MaxCalls
  /\ nonce' = nonce + 1
  /\ call' = CallF("store", self, req, [Ret("dict") EXCEPT !.id = self], {"put_object"})
  /\ UNCHANGED <<bucket, managers, lastStore, closed, inflight>>

\* recover_account(req) when get_object raises
recover_account_read_fails(self, req) ==
  /\ self \in managers
  /\ call' = CallF("recover", self, req, Ret(recover_account_ret(<<>>, self, req)),
                   {"get_object"})
  /\ UNCHANGED <<bucket, managers, nonce, lastStore, closed, inflight>>

\* recover_account(req) when put_object raises
recover_account_put_fails(self, req) ==
  /\ self \in managers
  /\ recover_account_ret(bucket, self, req) = "dict"
  /\ nonce < MaxCalls
  /\ nonce' = nonce + 1
  /\ call' = CallF("recover", self, req,
                   [Ret("dict") EXCEPT !.id = req._id,
                                       !.sus = generate_secured_string(nonce + 1)],
                   {"put_object"})
  /\ UNCHANGED <<bucket, managers, lastStore, closed, inflight>>

\* check_sus_integrity(req) when get_object raises
check_sus_integrity_read_fails(self, req) ==
  /\ self \in managers
  /\ call' = CallF("check", self, req, Ret(check_sus_integrity_ret(<<>>, self, req)),
                   {"get_object"})
  /\ UNCHANGED <<bucket, managers, nonce, lastStore, closed, inflight>>

\* close_account(req) when get_object raises
close_account_read_fails(self, req) ==
  /\ self \in managers
  /\ call' = CallF("close", self, req, Ret(close_account_ret(<<>>, self, req)),
                   {"get_object"})
  /\ UNCHANGED <<bucket, managers, nonce, lastStore, closed, inflight>>

\* close_account(req) when delete_object raises: the one ClientError that is reported
close_account_delete_fails(self, req) ==
  /\ self \in managers
  /\ close_account_ret(bucket, self, req) = "Success"
  /\ call' = CallF("close", self, req, Ret("Error deleting account"), {"delete_object"})
  /\ UNCHANGED <<bucket, managers, nonce, lastStore, closed, inflight>>

\* verify_user(req) when the get_object of display_user_db raises
verify_user_read_fails(self, req) ==
  /\ self \in managers
  /\ call' = CallF("verify", self, req, Ret(verify_user_ret(<<>>, req)), {"get_object"})
  /\ UNCHANGED <<bucket, managers, nonce, lastStore, closed, inflight>>

NextF ==
  \/ Next
  \/ \E uid \in Ids, accept_init \in BOOLEAN : UserDBManager_head_fails(uid, accept_init)
  \/ \E uid \in Ids : UserDBManager_put_fails(uid)
  \/ \E self \in Ids, req \in StoreReqs : store_user_string_put_fails(self, req)
  \/ \E self \in Ids, req \in RecoverReqs : recover_account_read_fails(self, req)
  \/ \E self \in Ids, req \in RecoverReqs : recover_account_put_fails(self, req)
  \/ \E self \in Ids, req \in CheckReqs : check_sus_integrity_read_fails(self, req)
  \/ \E self \in Ids, req \in CloseReqs : close_account_read_fails(self, req)
  \/ \E self \in Ids, req \in CloseReqs : close_account_delete_fails(self, req)
  \/ \E self \in Ids, req \in VerifyReqs : verify_user_read_fails(self, req)

SpecF == Init /\ [][NextF]_vars

----------------------------------------------------------------------------
(* Two callers on the record of one uid, each through its own instance, one S3 call at a *)
(* time: nothing in UserDBManager holds a lock or makes a conditional put, so the S3     *)
(* calls of two operations interleave freely.  What an operation computes between two of *)
(* its S3 calls is local to it and is taken together with the S3 call before it.  The    *)
(* calls are recorded in inflight; call, lastStore and closed are not kept here.         *)

\* the uid both callers construct their instance with
shared_uid == CHOOSE uid \in Ids : TRUE

\* the other caller
other(p) == CHOOSE q \in Callers : q # p

\* inflight when caller p starts the call c: the two calls overlap when the other caller is
\* inside one
starts(p, c) ==
  [q \in Callers |->
     IF q = p THEN [c EXCEPT !.overlap = inflight[other(p)].pc # "idle"]
     ELSE IF inflight[q].pc # "idle" THEN [inflight[q] EXCEPT !.overlap = TRUE]
     ELSE inflight[q]]

\* inflight when the put_object or delete_object of caller p has taken effect and its call
\* returns ret
wrote(p, ret) ==
  [q \in Callers |->
     IF q = p THEN [inflight[p] EXCEPT !.pc = "idle", !.ret = ret, !.inst = TRUE, !.last = TRUE]
     ELSE [inflight[q] EXCEPT !.last = FALSE]]

\* UserDBManager(shared_uid, accept_init) up to the head_object of db_file_exists
UserDBManager_head(p, accept_init) ==
  /\ inflight[p].pc = "idle"
  /\ inflight' = starts(p,
       IF db_file_exists(bucket, shared_uid)
         THEN Inflight("init", "idle", <<>>, 0, 0, <<>>, 0, "already exists", TRUE)
       ELSE IF ~accept_init
         THEN Inflight("init", "idle", <<>>, 0, 0, <<>>, 0, "ValueError", inflight[p].inst)
       ELSE Inflight("init", "put_object", <<>>, 0, 0, initial_data, 0, "none", inflight[p].inst))
  /\ managers' = IF db_file_exists(bucket, shared_uid) THEN managers \cup {shared_uid}
                 ELSE managers
  /\ UNCHANGED <<bucket, nonce, call, lastStore, closed>>

\* the put_object of initialize_db
UserDBManager_put(p) ==
  /\ inflight[p].op = "init"
  /\ inflight[p].pc = "put_object"
  /\ bucket' = write_to_s3(bucket, shared_uid, inflight[p].rec)
  /\ inflight' = wrote(p, "initialized")
  /\ managers' = managers \cup {shared_uid}
  /\ UNCHANGED <<nonce, call, lastStore, closed>>

\* store_user_string(req) up to data.update: the get_object of _read_from_s3 is its first
\* S3 call
store_user_string_read(p, req) ==
  /\ inflight[p].pc = "idle"
  /\ inflight[p].inst
  /\ IF ~all_values(req)
       THEN /\ inflight' = starts(p, Inflight("store", "idle", <<>>, 0, 0, <<>>, 0, "None", TRUE))
            /\ UNCHANGED nonce
     ELSE IF ~has_request_string(req)
       THEN /\ inflight' = starts(p, Inflight("store", "idle", <<>>, 0, 0, <<>>, 0, "KeyError", TRUE))
            /\ UNCHANGED nonce
     ELSE /\ nonce < MaxCalls
          /\ nonce' = nonce + 1
          /\ \E current_datetime \in Times :
               inflight' = starts(p,
                 Inflight("store", "put_object", req.request_string, nonce + 1, current_datetime,
                          populate(read_from_s3(bucket, shared_uid), shared_uid,
                                   serialize_data(req), nonce + 1, current_datetime),
                          0, "none", TRUE))
  /\ UNCHANGED <<bucket, managers, call, lastStore, closed>>

\* the put_object of store_user_string, and its return
store_user_string_put(p) ==
  /\ inflight[p].op = "store"
  /\ inflight[p].pc = "put_object"
  /\ bucket' = write_to_s3(bucket, shared_uid, inflight[p].rec)
  /\ inflight' = wrote(p, "dict")
  /\ UNCHANGED <<managers, nonce, call, lastStore, closed>>

\* recover_account(req) up to data.update
recover_account_read(p, req) ==
  /\ inflight[p].pc = "idle"
  /\ inflight[p].inst
  /\ IF recover_account_ret(bucket, shared_uid, req) = "dict"
       THEN /\ nonce < MaxCalls
            /\ nonce' = nonce + 1
            /\ \E current_datetime \in Times :
                 inflight' = starts(p,
                   Inflight("recover", "put_object", req.user_string, nonce + 1, current_datetime,
                            populate(read_from_s3(bucket, shared_uid), req._id,
                                     serialize_data([request_string |-> req.user_string]),
                                     nonce + 1, current_datetime),
                            0, "none", TRUE))
       ELSE /\ inflight' = starts(p, Inflight("recover", "idle", <<>>, 0, 0, <<>>, 0, "None", TRUE))
            /\ UNCHANGED nonce
  /\ UNCHANGED <<bucket, managers, call, lastStore, closed>>

\* the put_object of recover_account, and its return
recover_account_put(p) ==
  /\ inflight[p].op = "recover"
  /\ inflight[p].pc = "put_object"
  /\ bucket' = write_to_s3(bucket, shared_uid, inflight[p].rec)
  /\ inflight' = wrote(p, "dict")
  /\ UNCHANGED <<managers, nonce, call, lastStore, closed>>

\* close_account(req) up to the comparison of the secured user strings
close_account_read(p, req) ==
  /\ inflight[p].pc = "idle"
  /\ inflight[p].inst
  /\ inflight' = starts(p,
       IF close_account_ret(bucket, shared_uid, req) = "Success"
         THEN Inflight("close", "delete_object", <<>>, 0, 0, <<>>, req.uid, "none", TRUE)
         ELSE Inflight("close", "idle", <<>>, 0, 0, <<>>, 0,
                       close_account_ret(bucket, shared_uid, req), TRUE))
  /\ UNCHANGED <<bucket, managers, nonce, call, lastStore, closed>>

\* the delete_object of close_account, and its return
close_account_delete(p) ==
  /\ inflight[p].op = "close"
  /\ inflight[p].pc = "delete_object"
  /\ bucket' = delete_object(bucket, inflight[p].key)
  /\ inflight' = wrote(p, "Success")
  /\ UNCHANGED <<managers, nonce, call, lastStore, closed>>

NextC ==
  \/ \E p \in Callers, accept_init \in BOOLEAN : UserDBManager_head(p, accept_init)
  \/ \E p \in Callers : UserDBManager_put(p)
  \/ \E p \in Callers, req \in StoreReqs : store_user_string_read(p, req)
  \/ \E p \in Callers : store_user_string_put(p)
  \/ \E p \in Callers, req \in RecoverReqs : recover_account_read(p, req)
  \/ \E p \in Callers : recover_account_put(p)
  \/ \E p \in Callers, req \in CloseReqs : close_account_read(p, req)
  \/ \E p \in Callers : close_account_delete(p)

SpecC == Init /\ [][NextC]_vars

----------------------------------------------------------------------------
(* C1..C10 *)

\* C1: after a store of the non-empty string s through the instance of uid, and with no
\* store, recover or close since that was issued through the instance of uid or named uid,
\* verify_user for uid returns "Successful" for s and the mismatch message, never
\* "Successful", for every other string.
C1_StoreThenVerify ==
  \A p \in lastStore : \A s \in UserStrings :
    LET r == verify_user_ret(bucket, [uid |-> p[1], request_string |-> s])
    IN IF s = p[2] THEN r = "Successful"
       ELSE r = "User string does not match the stored hash."

\* C1 witness: verify_user has just returned "Successful" for a uid whose last store still
\* stands, with the string of that store.
C1_Witness ==
  /\ call.op = "verify"
  /\ call.ret.tag = "Successful"
  /\ has_request_string(call.req)
  /\ <<call.req.uid, call.req.request_string>> \in lastStore

\* C2 (as claimed): a close_account whose sus differs from the secured_user_string of the
\* record of the uid it names returns a failure and leaves the bucket as it was, whichever
\* instance it is issued through.
C2_WrongTokenKeepsRecord ==
  [][(/\ call'.op = "close"
      /\ call'.req.uid \in DOMAIN bucket
      /\ bucket[call'.req.uid].secured_user_string # call'.req.sus)
     => (call'.ret.tag # "Success" /\ bucket' = bucket)]_vars

\* C3 (as claimed): a uid closed with its own token, and not initialised since, has no
\* object, and verify_user for it returns the not-found message.
C3_ClosedStaysAbsent ==
  \A uid \in closed :
    /\ ~db_file_exists(bucket, uid)
    /\ display_user_db(bucket, uid).tag = "No database found for UID"
    /\ \A s \in UserStrings :
         verify_user_ret(bucket, [uid |-> uid, request_string |-> s])
           = "No database found for UID"

\* C4 (as claimed): a recover_account that names a uid with no object returns None (not
\* found) and writes nothing: every record of the bucket is as it was.
C4_RecoverAbsentWritesNothing ==
  [][(call'.op = "recover" /\ call'.req._id \notin DOMAIN bucket)
     => (call'.ret.tag = "None" /\ bucket' = bucket)]_vars

\* C5 (as claimed): a populated record stored under the key of uid has _id = uid.
C5_IdIsKey ==
  \A uid \in DOMAIN bucket :
    bucket[uid].hash_string # <<>> => bucket[uid]._id = uid

\* C6: a store_user_string whose request holds an empty value returns None and leaves
\* the bucket, and so the record of the instance, as it was.
C6_EmptyValueRejected ==
  [][(call'.op = "store" /\ \E k \in DOMAIN call'.req : call'.req[k] = <<>>)
     => (call'.ret.tag = "None" /\ bucket' = bucket)]_vars

\* C6 witness: a store with an empty value has just been rejected on an instance whose
\* record is populated.
C6_Witness ==
  /\ call.op = "store"
  /\ \E k \in DOMAIN call.req : call.req[k] = <<>>
  /\ call.ret.tag = "None"
  /\ call.mgr \in DOMAIN bucket
  /\ bucket[call.mgr].hash_string # <<>>

\* C7 (as claimed): on a record that was initialised and never stored, check_sus_integrity
\* reports the missing field for every candidate token, the empty one included.
C7_FreshRecordFieldMissing ==
  \A self \in managers : \A tok \in Tokens :
    (self \in DOMAIN bucket /\ bucket[self] = initial_data)
      => check_sus_integrity_ret(bucket, self, [uid |-> self, secured_user_string |-> tok])
           = "User string not found in the database."

\* C8 (as claimed): check_sus_integrity for a request naming uid returns "Success" exactly
\* when the record of uid is there with a secured_user_string that was set and equals the
\* candidate, and "DBM not found" exactly when uid has no record.
C8_MatchIffTokenOfNamedRecord ==
  \A self \in managers : \A req \in CheckReqs :
    req.uid \in Ids =>
      LET r == check_sus_integrity_ret(bucket, self, req)
      IN /\ r = "Success" <=> /\ req.uid \in DOMAIN bucket
                              /\ bucket[req.uid].secured_user_string # 0
                              /\ bucket[req.uid].secured_user_string = req.secured_user_string
         /\ r = "DBM not found" <=> req.uid \notin DOMAIN bucket

\* C9 (as claimed): once recover_account has returned its dict for a uid whose record was
\* populated, the credentials that record held are dead: a string that verified before and
\* is not the new one is a mismatch for verify_user, and the secured_user_string the record
\* held is a mismatch for check_sus_integrity and close_account; and verify_user succeeds
\* with the new string and check_sus_integrity with the returned sus.
C9_RecoverKillsOldCredentials ==
  [][(/\ call'.op = "recover"
      /\ call'.ret.tag = "dict"
      /\ call'.req._id \in DOMAIN bucket
      /\ bucket[call'.req._id].hash_string # <<>>) =>
     LET uid == call'.req._id
         self == call'.mgr
         old == bucket[uid]
     IN /\ \A s \in UserStrings \ {call'.req.user_string} :
             ph_verify(old.hash_string, json_dumps(s)) = "True"
               => verify_user_ret(bucket', [uid |-> uid, request_string |-> s])
                    = "User string does not match the stored hash."
        /\ check_sus_integrity_ret(bucket', self,
             [uid |-> uid, secured_user_string |-> old.secured_user_string])
             = "Error, Integrity check failed"
        /\ close_account_ret(bucket', self, [uid |-> uid, sus |-> old.secured_user_string])
             = "Provided Secured User String does not match for UID"
        /\ verify_user_ret(bucket', [uid |-> uid, request_string |-> call'.req.user_string])
             = "Successful"
        /\ check_sus_integrity_ret(bucket', self,
             [uid |-> uid, secured_user_string |-> call'.ret.sus])
             = "Success"]_vars

\* C10: verify_user, check_sus_integrity and display_user_db leave the bucket as it was,
\* whatever they return.
C10_QueriesReadOnly ==
  [][call'.op \in {"verify", "check", "display"} => bucket' = bucket]_vars

\* C10 witness: a query has just returned a negative result while the bucket holds a
\* populated record.
C10_Witness ==
  /\ call.op \in {"verify", "check", "display"}
  /\ call.ret.tag \in {"User string does not match the stored hash.",
                       "Error, Integrity check failed",
                       "No database found for UID"}
  /\ \E uid \in DOMAIN bucket : bucket[uid].hash_string # <<>>

----------------------------------------------------------------------------
(* C11..C19 *)

\* C11: in every record of the bucket hash_string is empty exactly when secured_user_string
\* is, and a hash_string that is set was written by the call that generated the
\* secured_user_string beside it (the salt and the token are the same draw).
C11_HashAndTokenTogether ==
  \A uid \in DOMAIN bucket :
    LET r == bucket[uid]
    IN /\ r.hash_string = <<>> <=> r.secured_user_string = 0
       /\ r.hash_string # <<>> => r.hash_string[1] = r.secured_user_string

\* C11 witness: recover_account has just rewritten a record that a store had populated.
C11_Witness ==
  /\ call.op = "recover"
  /\ call.ret.tag = "dict"
  /\ nonce = 2
  /\ bucket[call.mgr].hash_string[1] = 2
  /\ bucket[call.mgr].secured_user_string = call.ret.sus

\* C12: constructing a UserDBManager for a uid that has an object puts nothing: the
\* bucket, and so the record, populated or not, is as it was.
C12_InitExistingIsNoOp ==
  [][(call'.op = "init" /\ call'.mgr \in DOMAIN bucket)
     => (bucket' = bucket /\ call'.ret.tag = "already exists")]_vars

\* C12 witness: a UserDBManager has just been constructed for a uid whose record is
\* populated, and the record is still populated.
C12_Witness ==
  /\ call.op = "init"
  /\ call.ret.tag = "already exists"
  /\ call.mgr \in DOMAIN bucket
  /\ bucket[call.mgr].hash_string # <<>>

\* C15 (as claimed): store_user_string and recover_account never give an object to a uid
\* that has none.
C15_OnlyInitCreates ==
  [][call'.op \in {"store", "recover"} => DOMAIN bucket' \subseteq DOMAIN bucket]_vars

\* C19: verify_user for a uid whose record holds the placeholder hash never returns
\* "Successful", whatever the user string.
C19_PlaceholderNeverVerifies ==
  \A uid \in DOMAIN bucket : \A s \in UserStrings :
    bucket[uid].hash_string = <<>>
      => verify_user_ret(bucket, [uid |-> uid, request_string |-> s]) # "Successful"

\* C19 witness: verify_user has just been called for a uid whose record is the placeholders
\* and returned the error of an invalid hash.
C19_Witness ==
  /\ call.op = "verify"
  /\ call.req.uid \in DOMAIN bucket
  /\ bucket[call.req.uid] = initial_data
  /\ call.ret.tag = "Error during verification"

\* C13 (as claimed): a store_user_string or recover_account that returns its dict has put
\* its record: the bucket then holds, under the key of the instance, the hash and the
\* token the call generated.
C13_SuccessMeansWritten ==
  [][(call'.op \in {"store", "recover"} /\ call'.ret.tag = "dict")
     => /\ call'.mgr \in DOMAIN bucket'
        /\ bucket'[call'.mgr].hash_string # <<>>
        /\ bucket'[call'.mgr].hash_string[1] = nonce'
        /\ bucket'[call'.mgr].secured_user_string = generate_secured_string(nonce')]_vars

\* C14 (as claimed): when the read of a call fails while the populated record of the instance
\* is in the bucket, check_sus_integrity, recover_account and close_account do not return their
\* not-found result, the constructor does not initialise, and the record is as it was.
C14_ReadFailureIsNotNotFound ==
  [][(/\ "failed" \in DOMAIN call'
      /\ call'.failed \cap {"get_object", "head_object"} # {}
      /\ call'.op \in {"check", "recover", "close", "init"}
      /\ call'.mgr \in DOMAIN bucket
      /\ bucket[call'.mgr].hash_string # <<>>)
     => /\ call'.ret.tag \notin {"DBM not found", "None", "initialized"}
        /\ bucket' = bucket]_vars

\* C16: when a store_user_string has returned and its put is the last write the bucket has
\* taken, the record of the uid is, in all its fields, the one of that store: its uid, the
\* hash of its string with its salt, its token, its clock reading and nothing else,
\* whatever the other caller did while the store was running.
C16_LastPutWinsInFull ==
  \A p \in Callers :
    (/\ inflight[p].op = "store"
     /\ inflight[p].pc = "idle"
     /\ inflight[p].ret = "dict"
     /\ inflight[p].last)
    => /\ shared_uid \in DOMAIN bucket
       /\ bucket[shared_uid] =
            [_id |-> shared_uid,
             hash_string |-> hash_user_string(json_dumps(inflight[p].s), inflight[p].n),
             secured_user_string |-> generate_secured_string(inflight[p].n),
             created_on |-> inflight[p].t]

\* C16 witness: two overlapping stores of different strings have both returned, and the one
\* that read first has put last, over the populated record the other one had put.
C16_Witness ==
  \E p \in Callers :
    /\ \A q \in Callers :
         /\ inflight[q].op = "store"
         /\ inflight[q].pc = "idle"
         /\ inflight[q].ret = "dict"
         /\ inflight[q].overlap
    /\ inflight[p].last
    /\ inflight[p].n < inflight[other(p)].n
    /\ inflight[p].s # inflight[other(p)].s
    /\ inflight[p].rec = bucket[shared_uid]

\* C17 (as claimed): a populated record is never replaced by the placeholders of
\* initialize_db, whatever the callers do concurrently.
C17_PopulatedNeverReinitialised ==
  [][(/\ shared_uid \in DOMAIN bucket
      /\ bucket[shared_uid].hash_string # <<>>)
     => ~(/\ shared_uid \in DOMAIN bucket'
          /\ bucket'[shared_uid] = initial_data)]_vars

\* C18 (as claimed): when a close_account of the uid has returned "Success" and a
\* store_user_string or recover_account of the other caller that overlapped it has returned
\* too, the uid has no record.
C18_ClosedAfterConcurrentWrite ==
  \A p \in Callers :
    (/\ inflight[p].op = "close"
     /\ inflight[p].pc = "idle"
     /\ inflight[p].ret = "Success"
     /\ inflight[p].key = shared_uid
     /\ inflight[p].overlap
     /\ inflight[other(p)].op \in {"store", "recover"}
     /\ inflight[other(p)].pc = "idle"
     /\ inflight[other(p)].overlap)
    => shared_uid \notin DOMAIN bucket

====
